---- MODULE Spec2Model ----
(***************************************************************************)
(* Model of src/color_panel.py: the colour panel's block state mirror, the *)
(* JSON config store, the unsaved-changes diff, the close confirmation,    *)
(* and the scene helpers (colour overrides, ramp / place2dTexture pairs).  *)
(*                                                                         *)
(* Four specifications share the variables:                                *)
(*   Spec       the panel: build, slider drags, custom colours, the two    *)
(*              render fields, Save Config, Close, re-opening;             *)
(*   SpecScene  the shading-pair helpers and Render Selected Controls;     *)
(*   SpecRender passes of Render Selected Controls and the render fields;  *)
(*   SpecColor  Apply Color on a selection.                                *)
(* The panel handlers never touch the scene and the scene handlers never   *)
(* touch the panel state or the file, so each part is explored on its own. *)
(***************************************************************************)
EXTENDS Integers, Sequences, FiniteSets, TLC

VARIABLES
    file,          \* content of CONFIG_PATH on disk
    blocks,        \* _color_ui_blocks: title -> [slider, rgb, lastIndex, swatch]
    curve_width,   \* value of the curve_width floatField
    sample_rate,   \* value of the sample_rate intField
    panelOpen,     \* the workspaceControl PANEL_NAME exists
    message,       \* what the last handler showed the user
    scene,         \* the Maya scene: generated nodes, connections, attributes
    lastOp         \* the last scene operation and its arguments (history)

panelVars == <<file, blocks, curve_width, sample_rate, panelOpen, message>>
sceneVars == <<scene, lastOp>>
vars == <<file, blocks, curve_width, sample_rate, panelOpen, message, scene, lastOp>>

----------------------------------------------------------------------------
(* Bounds of the exploration *)

\* custom colours 1..NumColors come out of the colour editor
NumColors == 2
\* at most MaxUuids names are drawn from unique_node_name
MaxUuids == 4
\* a selection holds at most MaxSelection objects
MaxSelection == 2

----------------------------------------------------------------------------
(* Constants of the program *)

\* two of the seven blocks of BLOCK_GROUPS ("MAIN CONTROLS": [17,17,17]),
\* in the order build_ui inserts them into _color_ui_blocks
TitleSeq == <<"MAIN CONTROLS 1", "MAIN CONTROLS 2">>
Titles == {TitleSeq[i] : i \in 1..Len(TitleSeq)}

\* BLOCK_GROUPS gives both blocks the default index 17
DefaultIndex(title) == 17

\* intSlider(min=-1, max=31): -1 is the custom colour position
CustomIndex == -1
SliderMax == 31
PaletteIndices == 0..SliderMax

\* the palette indices the exploration drags to and stores: the first one
\* and the blocks' default
Indices == {i \in PaletteIndices : i = 0 \/ \E t \in Titles : i = DefaultIndex(t)}
SliderValues == {CustomIndex} \cup Indices

\* None: an absent (or null) rgb
NoRgb == <<>>
\* an rgb triple; k stands for the float k/10
RgbOf(k) == <<k, k, k>>
Colors == {RgbOf(k) : k \in 1..NumColors}

\* the curve widths explored are the two defaults of the code: 0.0 when
\* has_unsaved_changes finds no saved value, 1.0 when build_ui finds none
CompareDefaultCurveWidth == 0
BuildDefaultCurveWidth == 1
CurveWidths == {CompareDefaultCurveWidth, BuildDefaultCurveWidth}
DefaultSampleRate == 1
\* the sample rates explored: the default of both and the next one
SampleRates == {DefaultSampleRate, DefaultSampleRate + 1}

----------------------------------------------------------------------------
(* The config document and the file *)

\* a saved block entry: {"index": i} (rgb absent) or {"index": -1, "rgb": c}
SavedEntries ==
    [index : Indices, rgb : {NoRgb}] \cup [index : {CustomIndex}, rgb : {NoRgb} \cup Colors]

RigEntries == [curveWidth : CurveWidths, sampleRate : SampleRates]

\* a document: entries for some of the titles, and at most one
\* "RenderRigControls" entry (rig is a set of zero or one record)
Docs ==
    UNION {[blocks : [S -> SavedEntries], rig : {{}} \cup {{r} : r \in RigEntries}]
             : S \in SUBSET Titles}

EmptyDoc == [blocks |-> [t \in {} |-> NoRgb], rig |-> {}]

\* the file is missing, holds text json.load rejects, or holds a document
Files ==
    {[kind |-> "missing", doc |-> EmptyDoc], [kind |-> "corrupt", doc |-> EmptyDoc]}
    \cup [kind : {"json"}, doc : Docs]

\* open(CONFIG_PATH, "r") followed by json.load: the document, or an exception
json_load(f) ==
    IF f.kind = "json" THEN [raised |-> FALSE, doc |-> f.doc]
    ELSE [raised |-> TRUE, doc |-> EmptyDoc]

\* read_json_config without its try/except: the exception of json.load escapes
read_json_config_NoExcept(f) ==
    IF f.kind # "missing" THEN json_load(f) ELSE [raised |-> FALSE, doc |-> EmptyDoc]

read_json_config(f) ==
    IF f.kind # "missing"
    THEN LET r == json_load(f)
         IN  IF r.raised THEN [raised |-> FALSE, doc |-> EmptyDoc] ELSE r
    ELSE [raised |-> FALSE, doc |-> EmptyDoc]

----------------------------------------------------------------------------
(* The block state mirror *)

\* cmds.colorIndex(idx, q=True): the palette's rgb for a palette index (kept
\* apart from the custom colours); an index outside the palette raises
colorIndex(idx) ==
    IF idx \in PaletteIndices
    THEN [raised |-> FALSE, rgb |-> <<100 + idx, 100 + idx, 100 + idx>>]
    ELSE [raised |-> TRUE, rgb |-> <<>>]

\* try: rgb = cmds.colorIndex(idx, q=True)  except Exception: rgb = [0.0, 0.0, 0.0]
SwatchOfIndex(idx) == IF colorIndex(idx).raised THEN <<0, 0, 0>> ELSE colorIndex(idx).rgb

\* saved_config.get(title, {}): a sequence of zero or one entry
SavedData(doc, title) ==
    IF title \in DOMAIN doc.blocks THEN <<doc.blocks[title]>> ELSE <<>>

\* the record add_color_index_block puts into blocks_dict[title]
add_color_index_block(title, default_index, saved_data) ==
    LET saved_idx == IF saved_data # <<>> THEN saved_data[1].index ELSE default_index
        saved_rgb == IF saved_data # <<>> THEN saved_data[1].rgb ELSE NoRgb
        custom    == saved_idx = CustomIndex /\ saved_rgb # NoRgb
    IN  [slider    |-> saved_idx,
         rgb       |-> IF saved_idx = CustomIndex THEN saved_rgb ELSE NoRgb,
         lastIndex |-> IF custom THEN default_index ELSE saved_idx,
         swatch    |-> IF custom THEN saved_rgb ELSE SwatchOfIndex(saved_idx)]

\* the widget state build_ui leaves behind for a document
BuiltBlocks(doc) ==
    [t \in Titles |-> add_color_index_block(t, DefaultIndex(t), SavedData(doc, t))]

BuiltCurveWidth(doc) ==
    IF doc.rig = {} THEN BuildDefaultCurveWidth ELSE (CHOOSE r \in doc.rig : TRUE).curveWidth

BuiltSampleRate(doc) ==
    IF doc.rig = {} THEN DefaultSampleRate ELSE (CHOOSE r \in doc.rig : TRUE).sampleRate

\* the block after the slider was dragged to idx
DraggedBlock(block, idx) ==
    IF idx = CustomIndex
    THEN IF block.rgb = NoRgb
         THEN [block EXCEPT !.slider = block.lastIndex]
         ELSE [block EXCEPT !.slider = idx, !.swatch = block.rgb]
    ELSE [block EXCEPT !.slider = idx, !.lastIndex = idx, !.swatch = SwatchOfIndex(idx)]

\* the block after the colour editor returned rgb
CustomBlock(block, rgb) ==
    [block EXCEPT !.rgb = rgb, !.slider = CustomIndex, !.swatch = rgb]

----------------------------------------------------------------------------
(* Save and compare *)

\* the entry save_config and has_unsaved_changes derive from a block (the
\* "name" key save_config adds is read nowhere and is left out)
CurrentEntry(block) ==
    IF block.slider >= 0
    THEN [index |-> block.slider, rgb |-> NoRgb]
    ELSE [index |-> CustomIndex, rgb |-> block.rgb]

\* the data save_config hands to write_json_config
SaveData(bl, cw, sr) ==
    [blocks |-> [t \in Titles |-> CurrentEntry(bl[t])],
     rig    |-> {[curveWidth |-> cw, sampleRate |-> sr]}]

\* write_json_config: open(CONFIG_PATH, "w") truncates the file before
\* json.dump writes to it, so a dump that raises leaves a truncated or
\* half-written file, which json.load rejects
write_json_config(f, data, outcome) ==
    CASE outcome = "ok"         -> [file |-> [kind |-> "json", doc |-> data], message |-> "saved"]
      [] outcome = "open_error" -> [file |-> f, message |-> "save_error"]
      [] outcome = "dump_error" -> [file |-> [kind |-> "corrupt", doc |-> EmptyDoc],
                                    message |-> "save_error"]

\* normalize_saved_block that drops the rgb of an entry at index -1
normalize_saved_block_DropRgb(saved_data) ==
    IF saved_data = <<>> THEN <<>>
    ELSE <<[index |-> IF saved_data[1].index >= 0 THEN saved_data[1].index ELSE CustomIndex,
            rgb |-> NoRgb]>>

\* normalize_saved_block on saved_config.get(k, {}): <<>> stands for None
normalize_saved_block(saved_data) ==
    IF saved_data = <<>> THEN <<>>
    ELSE LET block == saved_data[1]
         IN  IF block.index >= 0
             THEN <<[index |-> block.index, rgb |-> NoRgb]>>
             ELSE <<[index |-> CustomIndex, rgb |-> block.rgb]>>

SavedCurveWidth(doc) ==
    IF doc.rig = {} THEN CompareDefaultCurveWidth ELSE (CHOOSE r \in doc.rig : TRUE).curveWidth

SavedSampleRate(doc) ==
    IF doc.rig = {} THEN DefaultSampleRate ELSE (CHOOSE r \in doc.rig : TRUE).sampleRate

\* the loop body without the comparison of the rgb at index -1
BlockChanged_NoRgb(saved_config, k, v) ==
    LET saved_norm == normalize_saved_block(SavedData(saved_config, k))
    IN  IF saved_norm = <<>> THEN TRUE ELSE v.index # saved_norm[1].index

\* one block of the loop of has_unsaved_changes: TRUE is "return True"
BlockChanged(saved_config, k, v) ==
    LET saved_norm == normalize_saved_block(SavedData(saved_config, k))
    IN  IF saved_norm = <<>> THEN TRUE
        ELSE IF v.index # saved_norm[1].index THEN TRUE
        ELSE IF v.index = CustomIndex
             THEN IF saved_norm[1].rgb = NoRgb /\ v.rgb = NoRgb THEN FALSE
                  ELSE saved_norm[1].rgb # v.rgb
             ELSE FALSE

\* the loop over current.items(), from the i-th title on
RECURSIVE ChangedFrom(_, _, _)
ChangedFrom(saved_config, bl, i) ==
    IF i > Len(TitleSeq) THEN FALSE
    ELSE IF BlockChanged(saved_config, TitleSeq[i], CurrentEntry(bl[TitleSeq[i]])) THEN TRUE
    ELSE ChangedFrom(saved_config, bl, i + 1)

\* has_unsaved_changes taking an empty document for "nothing to compare"
has_unsaved_changes_EmptyUnchanged(f, bl, cw, sr) ==
    LET saved_config == read_json_config(f).doc
    IN  IF saved_config = EmptyDoc THEN FALSE
        ELSE IF SavedCurveWidth(saved_config) # cw THEN TRUE
        ELSE IF SavedSampleRate(saved_config) # sr THEN TRUE
        ELSE ChangedFrom(saved_config, bl, 1)

has_unsaved_changes(f, bl, cw, sr) ==
    LET saved_config == read_json_config(f).doc
    IN  IF saved_config = EmptyDoc THEN TRUE
        ELSE IF SavedCurveWidth(saved_config) # cw THEN TRUE
        ELSE IF SavedSampleRate(saved_config) # sr THEN TRUE
        ELSE ChangedFrom(saved_config, bl, 1)

\* has_unsaved_changes in the current state
Unsaved == has_unsaved_changes(file, blocks, curve_width, sample_rate)

----------------------------------------------------------------------------
(* The panel's handlers *)

\* the state build_ui leaves behind
Built(f) ==
    LET saved_config == read_json_config(f).doc
    IN  /\ blocks = BuiltBlocks(saved_config)
        /\ curve_width = BuiltCurveWidth(saved_config)
        /\ sample_rate = BuiltSampleRate(saved_config)

InitPanel ==
    /\ file \in Files
    /\ Built(file)
    /\ panelOpen = TRUE
    /\ message = "none"

\* dragCommand of a block's slider, after the drag put the slider on idx
update_color_block(title, idx) ==
    /\ panelOpen
    /\ blocks' = [blocks EXCEPT ![title] = DraggedBlock(@, idx)]
    /\ message' = "none"
    /\ UNCHANGED <<file, curve_width, sample_rate, panelOpen>>

\* "Create Custom Color": the colour editor is accepted with rgb, or cancelled
create_custom_color(title, rgb) ==
    /\ panelOpen
    /\ IF rgb # NoRgb
       THEN /\ blocks' = [blocks EXCEPT ![title] = CustomBlock(@, rgb)]
            /\ message' = "custom_created"
       ELSE /\ message' = "none"
            /\ UNCHANGED blocks
    /\ UNCHANGED <<file, curve_width, sample_rate, panelOpen>>

\* the user types a value into the curve width floatField
edit_curve_width(v) ==
    /\ panelOpen
    /\ curve_width' = v
    /\ message' = "none"
    /\ UNCHANGED <<file, blocks, sample_rate, panelOpen>>

\* the user types a value into the sample rate intField
edit_sample_rate(v) ==
    /\ panelOpen
    /\ sample_rate' = v
    /\ message' = "none"
    /\ UNCHANGED <<file, blocks, curve_width, panelOpen>>

\* "Save Config"
save_config(outcome) ==
    /\ panelOpen
    /\ LET w == write_json_config(file, SaveData(blocks, curve_width, sample_rate), outcome)
       IN  /\ file' = w.file
           /\ message' = w.message
    /\ UNCHANGED <<blocks, curve_width, sample_rate, panelOpen>>

\* Close without the has_unsaved_changes test: the panel is deleted unasked
close_panel_NoPrompt(result, deleted) ==
    /\ panelOpen
    /\ message' = "none"
    /\ panelOpen' = ~deleted
    /\ UNCHANGED <<file, blocks, curve_width, sample_rate>>

\* "Close": result is the answer to the confirmation, when it is shown
\* (cancelling or dismissing the dialog answers "No"); deleted is whether
\* deleteUI went through
close_panel(result, deleted) ==
    /\ panelOpen
    /\ IF Unsaved /\ result # "Yes"
       THEN /\ message' = "confirm_no"
            /\ UNCHANGED panelOpen
       ELSE /\ message' = IF Unsaved THEN "confirm_yes" ELSE "none"
            /\ panelOpen' = ~deleted
    /\ UNCHANGED <<file, blocks, curve_width, sample_rate>>

\* show_color_panel when the panel is gone: build_ui reads the file again
show_color_panel ==
    /\ ~panelOpen
    /\ panelOpen' = TRUE
    /\ LET saved_config == read_json_config(file).doc
       IN  /\ blocks' = BuiltBlocks(saved_config)
           /\ curve_width' = BuiltCurveWidth(saved_config)
           /\ sample_rate' = BuiltSampleRate(saved_config)
    /\ message' = "none"
    /\ UNCHANGED file

----------------------------------------------------------------------------
(* The scene *)

\* the objects a selection is drawn from: a local control curve, a control
\* curve from a referenced file, a local object whose shape is a mesh (no
\* aiCurveShader attribute), a group without shapes, and an entry whose
\* shapes cannot be listed (cmds.listRelatives raises)
Objects == {"ctl", "ref:ctl", "prop", "grp", "stale"}

\* safe_name: the last path component, every character outside
\* [0-9A-Za-z_] replaced by "_"
safe_name(obj) == IF obj = "ref:ctl" THEN "ref_ctl" ELSE obj

Node(type, base, uid) == [type |-> type, base |-> base, uid |-> uid]

CtlShape == Node("nurbsCurve", "ctlShape", 0)
RefShape == Node("nurbsCurve", "ref:ctlShape", 0)
PropShape == Node("mesh", "propShape", 0)
AllShapes == {CtlShape, RefShape, PropShape}
\* a shader the user has wired into ctlShape.aiCurveShader
UserShader == Node("shader", "userShader", 0)

\* cmds.listRelatives(obj, shapes=True, fullPath=True) or []
listRelatives(obj) ==
    CASE obj = "ctl"     -> [raised |-> FALSE, shapes |-> <<CtlShape>>]
      [] obj = "ref:ctl" -> [raised |-> FALSE, shapes |-> <<RefShape>>]
      [] obj = "prop"    -> [raised |-> FALSE, shapes |-> <<PropShape>>]
      [] obj = "grp"     -> [raised |-> FALSE, shapes |-> <<>>]
      [] OTHER           -> [raised |-> TRUE, shapes |-> <<>>]

\* cmds.referenceQuery(shape, isNodeReferenced=True)
referenceQuery(shape) == shape = RefShape

\* the override attribute of a shape that is locked, so that setAttr on it
\* raises: the referenced shape has its overrideRGBColors locked
LockedAttr(shape) == IF shape = RefShape THEN "overrideRGBColors" ELSE "none"

\* whether a node carries an attribute
AttrExists(node, attr) ==
    CASE node.type = "ramp"           -> attr \in {"outColor", "uv", "uvFilterSize"}
      [] node.type = "place2dTexture" -> attr \in {"outUV", "outUvFilterSize"}
      [] node.type = "nurbsCurve"     -> attr = "aiCurveShader"
      [] node.type = "shader"         -> attr = "outColor"
      [] OTHER                        -> FALSE

Conn(src, srcAttr, dst, dstAttr) ==
    [src |-> src, srcAttr |-> srcAttr, dst |-> dst, dstAttr |-> dstAttr]

\* cmds.objExists
objExists(sc, node) == node \in sc.nodes \/ node \in AllShapes \/ node = UserShader

\* cmds.createNode(type, name=...)
createNode(sc, node) == [sc EXCEPT !.nodes = @ \cup {node}]

\* try: if not cmds.isConnected(src, dst): cmds.connectAttr(src, dst, force=force)
\* except Exception: pass
\* (a missing node or attribute raises; so does connecting, without force, to
\* a destination another source already feeds; force replaces that source)
TryConnect(sc, src, srcAttr, dst, dstAttr, force) ==
    LET incoming == {c \in sc.conns : c.dst = dst /\ c.dstAttr = dstAttr}
        new      == Conn(src, srcAttr, dst, dstAttr)
    IN  IF ~(objExists(sc, src) /\ objExists(sc, dst)
             /\ AttrExists(src, srcAttr) /\ AttrExists(dst, dstAttr)) THEN sc
        ELSE IF new \in sc.conns THEN sc
        ELSE IF incoming # {} /\ ~force THEN sc
        ELSE [sc EXCEPT !.conns = (@ \ incoming) \cup {new}]

\* ensure_place2d_and_ramp that creates its nodes without asking objExists:
\* createNode under a taken name makes a second, renumbered node
ensure_place2d_and_ramp_NoExists(sc, ramp_name, texture_name, shape) ==
    LET n  == Cardinality(sc.nodes)
        r  == IF ramp_name \in sc.nodes THEN [ramp_name EXCEPT !.uid = 1000 + n] ELSE ramp_name
        s1 == createNode(sc, r)
        t  == IF texture_name \in sc.nodes THEN [texture_name EXCEPT !.uid = 1001 + n]
              ELSE texture_name
        s2 == createNode(s1, t)
        s3 == TryConnect(s2, texture_name, "outUV", ramp_name, "uv", FALSE)
        s4 == TryConnect(s3, texture_name, "outUvFilterSize", ramp_name, "uvFilterSize", FALSE)
    IN  TryConnect(s4, ramp_name, "outColor", shape, "aiCurveShader", TRUE)

ensure_place2d_and_ramp(sc, ramp_name, texture_name, shape) ==
    LET s1 == IF ~objExists(sc, ramp_name) THEN createNode(sc, ramp_name) ELSE sc
        s2 == IF ~objExists(s1, texture_name) THEN createNode(s1, texture_name) ELSE s1
        s3 == TryConnect(s2, texture_name, "outUV", ramp_name, "uv", FALSE)
        s4 == TryConnect(s3, texture_name, "outUvFilterSize", ramp_name, "uvFilterSize", FALSE)
    IN  TryConnect(s4, ramp_name, "outColor", shape, "aiCurveShader", TRUE)

\* cmds.delete(node): the node goes, with its connections and attributes
delete(sc, node) ==
    [sc EXCEPT !.nodes = @ \ {node},
               !.conns = {c \in @ : c.src # node /\ c.dst # node},
               !.rampColor = {e \in @ : e[1] # node}]

\* cmds.listConnections(node, source=False, destination=True) or []
Outgoing(sc, node) == {c \in sc.conns : c.src = node}

\* one pass of a loop of cleanup_unused_ramps_and_textures over a list
RECURSIVE DeleteUnconnected(_, _, _)
DeleteUnconnected(sc, names, i) ==
    IF i > Len(names) THEN sc
    ELSE LET node == names[i]
             next == IF objExists(sc, node) /\ Outgoing(sc, node) = {}
                     THEN delete(sc, node) ELSE sc
         IN  DeleteUnconnected(next, names, i + 1)

\* the two loops in the other order: textures first, then ramps
cleanup_unused_ramps_and_textures_TexturesFirst(sc, created_ramps, created_textures) ==
    DeleteUnconnected(DeleteUnconnected(sc, created_textures, 1), created_ramps, 1)

cleanup_unused_ramps_and_textures(sc, created_ramps, created_textures) ==
    DeleteUnconnected(DeleteUnconnected(sc, created_ramps, 1), created_textures, 1)

\* unique_node_name: the k-th uuid drawn so far names the node
unique_node_name(type, base, k) == Node(type, base, k)

\* the names render_selected_controls derives for an object with shapes;
\* uuids is the number of uuids drawn before
PairNames(obj, shapes, uuids) ==
    LET base_name == safe_name(obj)
        is_any_referenced == \E i \in 1..Len(shapes) : referenceQuery(shapes[i])
    IN  IF is_any_referenced
        THEN [ramp    |-> unique_node_name("ramp", base_name, uuids + 1),
              texture |-> unique_node_name("place2dTexture", base_name, uuids + 2),
              uuids   |-> uuids + 2]
        ELSE [ramp    |-> Node("ramp", base_name, 0),
              texture |-> Node("place2dTexture", base_name, 0),
              uuids   |-> uuids]

----------------------------------------------------------------------------
(* Colour overrides *)

White == <<10, 10, 10>>

\* the override attributes of a shape nothing was set on
NoOverride ==
    [overrideEnabled |-> 0, overrideRGBColors |-> 0, overrideColor |-> 0,
     overrideColorRGB |-> <<0, 0, 0>>]

\* the render attributes of a curve shape nothing was set on
NoCurveAttrs ==
    [aiRenderCurve |-> 0, aiCurveWidth |-> 0, aiSampleRate |-> 0, castsShadows |-> 1]

\* cmds.getAttr: the scene keeps the attributes of the shapes something was
\* set on; every other shape carries the defaults
OverrideOf(sc, shape) ==
    IF shape \in DOMAIN sc.override THEN sc.override[shape] ELSE NoOverride

\* the attribute map f with the attributes of shape set to value
WithAttrs(f, shape, value) ==
    [s \in DOMAIN f \cup {shape} |-> IF s = shape THEN value ELSE f[s]]

\* the three setAttr calls of one try block, in order; the first one on a
\* locked attribute raises and the rest of the block is skipped
SetOverrides(ov, lock, rgbColors, colorAttr, colorValue) ==
    IF lock = "overrideEnabled" THEN ov
    ELSE LET o1 == [ov EXCEPT !.overrideEnabled = 1]
         IN  IF lock = "overrideRGBColors" THEN o1
             ELSE LET o2 == [o1 EXCEPT !.overrideRGBColors = rgbColors]
                  IN  IF lock = colorAttr THEN o2
                      ELSE IF colorAttr = "overrideColor"
                           THEN [o2 EXCEPT !.overrideColor = colorValue[1]]
                           ELSE [o2 EXCEPT !.overrideColorRGB = colorValue]

RECURSIVE ColorShapes(_, _, _, _, _, _)
ColorShapes(sc, shapes, j, rgbColors, colorAttr, colorValue) ==
    IF j > Len(shapes) THEN sc
    ELSE LET s == shapes[j]
             next == [sc EXCEPT !.override = WithAttrs(@, s,
                         SetOverrides(OverrideOf(sc, s), LockedAttr(s), rgbColors,
                                      colorAttr, colorValue))]
         IN  ColorShapes(next, shapes, j + 1, rgbColors, colorAttr, colorValue)

\* the loop "for ctl in sel" of change_color_by_index / change_color_by_rgb:
\* listRelatives stands outside the try block, so its exception ends the loop
RECURSIVE ColorObjects(_, _, _, _, _, _)
ColorObjects(sc, sel, i, rgbColors, colorAttr, colorValue) ==
    IF i > Len(sel) THEN [scene |-> sc, raised |-> FALSE]
    ELSE LET rel == listRelatives(sel[i])
         IN  IF rel.raised THEN [scene |-> sc, raised |-> TRUE]
             ELSE ColorObjects(ColorShapes(sc, rel.shapes, 1, rgbColors, colorAttr, colorValue),
                               sel, i + 1, rgbColors, colorAttr, colorValue)

change_color_by_index(sc, sel, index) ==
    ColorObjects(sc, sel, 1, 0, "overrideColor", <<index>>)

change_color_by_rgb(sc, sel, rgb) ==
    ColorObjects(sc, sel, 1, 1, "overrideColorRGB", rgb)

get_current_color_of_shape(sc, shape) ==
    LET o == OverrideOf(sc, shape)
    IN  IF o.overrideEnabled = 0 THEN White
        ELSE IF o.overrideRGBColors = 1 THEN o.overrideColorRGB
        ELSE IF colorIndex(o.overrideColor).raised THEN White
        ELSE colorIndex(o.overrideColor).rgb

\* set_ramp_color: both colour entries of the ramp get rgb
set_ramp_color(sc, ramp_name, rgb) ==
    IF ~objExists(sc, ramp_name) THEN sc
    ELSE [sc EXCEPT !.rampColor = {e \in @ : e[1] # ramp_name} \cup {<<ramp_name, rgb>>}]

----------------------------------------------------------------------------
(* Render Selected Controls *)

\* the loop "for shape in shapes" of render_selected_controls
RECURSIVE RenderShapes(_, _, _, _, _, _, _)
RenderShapes(sc, shapes, j, ramp_name, texture_name, cw, sr) ==
    IF j > Len(shapes) THEN sc
    ELSE LET shape == shapes[j]
         IN  IF shape.type # "nurbsCurve"
             THEN RenderShapes(sc, shapes, j + 1, ramp_name, texture_name, cw, sr)
             ELSE LET existing == {c \in sc.conns : c.dst = shape /\ c.dstAttr = "aiCurveShader"}
                      s1 == [sc EXCEPT !.conns = @ \ existing]
                      s2 == ensure_place2d_and_ramp(s1, ramp_name, texture_name, shape)
                      s3 == set_ramp_color(s2, ramp_name, get_current_color_of_shape(s2, shape))
                      s4 == [s3 EXCEPT !.curveAttrs = WithAttrs(@, shape,
                                [aiRenderCurve |-> 1, aiCurveWidth |-> cw,
                                 aiSampleRate |-> sr, castsShadows |-> 0])]
                 IN  RenderShapes(s4, shapes, j + 1, ramp_name, texture_name, cw, sr)

\* the loop "for obj in selection": the scene after it, the names it
\* collected, and whether listRelatives raised (which ends the handler)
RECURSIVE RenderObjects(_, _, _, _, _, _, _)
RenderObjects(sc, selection, i, created_ramps, created_textures, cw, sr) ==
    IF i > Len(selection)
    THEN [scene |-> sc, raised |-> FALSE,
          created_ramps |-> created_ramps, created_textures |-> created_textures]
    ELSE LET rel == listRelatives(selection[i])
         IN  IF rel.raised
             THEN [scene |-> sc, raised |-> TRUE,
                   created_ramps |-> created_ramps, created_textures |-> created_textures]
             ELSE IF rel.shapes = <<>>
             THEN RenderObjects(sc, selection, i + 1, created_ramps, created_textures, cw, sr)
             ELSE LET names == PairNames(selection[i], rel.shapes, sc.uuids)
                      s1 == [sc EXCEPT !.uuids = names.uuids]
                      s2 == ensure_place2d_and_ramp(s1, names.ramp, names.texture, rel.shapes[1])
                      s3 == RenderShapes(s2, rel.shapes, 1, names.ramp, names.texture, cw, sr)
                  IN  RenderObjects(s3, selection, i + 1,
                                    Append(created_ramps, names.ramp),
                                    Append(created_textures, names.texture), cw, sr)

\* the scene a whole run of render_selected_controls leaves, and its message
RenderResult(sc, selection, cw, sr) ==
    IF selection = <<>> THEN [scene |-> sc, message |-> "no_selection"]
    ELSE LET r == RenderObjects(sc, selection, 1, <<>>, <<>>, cw, sr)
         IN  IF r.raised THEN [scene |-> r.scene, message |-> "script_error"]
             ELSE [scene |-> cleanup_unused_ramps_and_textures(
                                 r.scene, r.created_ramps, r.created_textures),
                   message |-> "render_applied"]

----------------------------------------------------------------------------
(* The scene handlers and helper steps *)

\* no scene operation has run yet
NoOp == [op |-> "none"]

\* a scene the tool has not touched yet
EmptyScene ==
    [nodes |-> {}, conns |-> {}, uuids |-> 0, rampColor |-> {},
     curveAttrs |-> [s \in {} |-> NoCurveAttrs],
     override |-> [s \in {} |-> NoOverride]]

\* cmds.ls(sl=True): up to MaxSelection objects, none twice
Selections ==
    UNION {{sel \in [1..n -> Objects] : \A i, j \in 1..n : i # j => sel[i] # sel[j]}
             : n \in 0..MaxSelection}

\* the uuids a selection draws: two for each object with a referenced shape
RECURSIVE UuidsNeeded(_, _)
UuidsNeeded(sel, i) ==
    IF i > Len(sel) THEN 0
    ELSE LET rel == listRelatives(sel[i])
         IN  (IF \E j \in 1..Len(rel.shapes) : referenceQuery(rel.shapes[j]) THEN 2 ELSE 0)
             + UuidsNeeded(sel, i + 1)

\* "Render Selected Controls"
render_selected_controls(selection) ==
    /\ panelOpen
    /\ scene.uuids + UuidsNeeded(selection, 1) <= MaxUuids
    /\ LET r == RenderResult(scene, selection, curve_width, sample_rate)
       IN  /\ scene' = r.scene
           /\ message' = r.message
    /\ lastOp' = [op |-> "render"]
    /\ UNCHANGED <<file, blocks, curve_width, sample_rate, panelOpen>>

\* "Apply Color" of a block, on the selection sel
apply_color_button(title, sel) ==
    /\ panelOpen
    /\ LET idx == blocks[title].slider
           rgb == blocks[title].swatch
           r   == IF sel = <<>> THEN [scene |-> scene, raised |-> FALSE]
                  ELSE IF idx >= 0 THEN change_color_by_index(scene, sel, idx)
                  ELSE change_color_by_rgb(scene, sel, rgb)
       IN  /\ scene' = r.scene
           /\ message' = IF r.raised THEN "script_error" ELSE "none"
           /\ lastOp' = [op |-> "apply", sel |-> sel, idx |-> idx, rgb |-> rgb,
                         raised |-> r.raised]
    /\ UNCHANGED <<file, blocks, curve_width, sample_rate, panelOpen>>

\* the shading-pair setup of render_selected_controls for one object with
\* shapes: the names, then ensure_place2d_and_ramp on its first shape
EnsurePair(obj) ==
    LET rel == listRelatives(obj)
    IN  /\ ~rel.raised /\ rel.shapes # <<>>
        /\ scene.uuids + UuidsNeeded(<<obj>>, 1) <= MaxUuids
        /\ LET names == PairNames(obj, rel.shapes, scene.uuids)
           IN  scene' = ensure_place2d_and_ramp([scene EXCEPT !.uuids = names.uuids],
                                                names.ramp, names.texture, rel.shapes[1])
        /\ lastOp' = [op |-> "ensure", obj |-> obj,
                      runs |-> IF lastOp.op = "ensure" /\ lastOp.obj = obj THEN 2 ELSE 1]
        /\ UNCHANGED panelVars

\* the pairs a pass can have listed in created_ramps / created_textures
KnownPairs ==
    {[ramp |-> Node("ramp", safe_name(o), 0), texture |-> Node("place2dTexture", safe_name(o), 0)]
       : o \in {"ctl", "prop"}}
    \cup {[ramp |-> Node("ramp", safe_name("ref:ctl"), k),
           texture |-> Node("place2dTexture", safe_name("ref:ctl"), k + 1)]
            : k \in {u \in 1..scene.uuids : u % 2 = 1}}

PairLists ==
    UNION {{ps \in [1..n -> KnownPairs] : \A i, j \in 1..n : i # j => ps[i] # ps[j]}
             : n \in 1..MaxSelection}

\* cleanup_unused_ramps_and_textures on the pairs a pass listed
CleanupPairs(pairs) ==
    /\ LET created_ramps    == [i \in 1..Len(pairs) |-> pairs[i].ramp]
           created_textures == [i \in 1..Len(pairs) |-> pairs[i].texture]
       IN  /\ scene' = cleanup_unused_ramps_and_textures(scene, created_ramps, created_textures)
           /\ lastOp' = [op |-> "cleanup", pairs |-> {pairs[i] : i \in 1..Len(pairs)},
                         deleted |-> Cardinality(scene.nodes \ scene'.nodes)]
    /\ UNCHANGED panelVars

----------------------------------------------------------------------------
(* The specifications *)

Init ==
    /\ InitPanel
    /\ scene = EmptyScene
    /\ lastOp = NoOp

\* the panel's handlers leave the scene alone
Next ==
    \/ (\E t \in Titles, idx \in SliderValues : update_color_block(t, idx))
          /\ UNCHANGED sceneVars
    \/ (\E t \in Titles, rgb \in {NoRgb} \cup Colors : create_custom_color(t, rgb))
          /\ UNCHANGED sceneVars
    \/ (\E v \in CurveWidths : edit_curve_width(v)) /\ UNCHANGED sceneVars
    \/ (\E v \in SampleRates : edit_sample_rate(v)) /\ UNCHANGED sceneVars
    \/ (\E outcome \in {"ok", "open_error", "dump_error"} : save_config(outcome))
          /\ UNCHANGED sceneVars
    \/ (\E result \in {"Yes", "No"}, deleted \in BOOLEAN : close_panel(result, deleted))
          /\ UNCHANGED sceneVars
    \/ show_color_panel /\ UNCHANGED sceneVars

\* the panel
Spec == Init /\ [][Next]_vars

\* the scenes the scene specifications start from: untouched by the tool,
\* ctlShape fed by a shader of the user's or not, and overridden or not
InitialScenes ==
    {[EmptyScene EXCEPT !.conns = cs, !.override = o]
       : cs \in {{}, {Conn(UserShader, "outColor", CtlShape, "aiCurveShader")}},
         o \in {EmptyScene.override,
                WithAttrs(EmptyScene.override, CtlShape,
                    [NoOverride EXCEPT !.overrideEnabled = 1,
                                       !.overrideColor = DefaultIndex("")]),
                WithAttrs(EmptyScene.override, CtlShape,
                    [NoOverride EXCEPT !.overrideEnabled = 1, !.overrideRGBColors = 1,
                                       !.overrideColorRGB = RgbOf(1)])}}

InitScene ==
    /\ InitPanel
    /\ file.kind = "missing"
    /\ scene \in InitialScenes
    /\ lastOp = NoOp

NextScene ==
    \/ \E obj \in Objects : EnsurePair(obj)
    \/ \E pairs \in PairLists : CleanupPairs(pairs)
    \/ \E selection \in Selections : render_selected_controls(selection)

\* the shading-pair helpers and Render Selected Controls
SpecScene == InitScene /\ [][NextScene]_vars

\* the selections of local and referenced objects whose shapes can be listed
ListableSelections ==
    {sel \in Selections : \A i \in 1..Len(sel) : ~listRelatives(sel[i]).raised}

NextRender ==
    \/ \E selection \in ListableSelections : render_selected_controls(selection)
    \/ (\E v \in CurveWidths : edit_curve_width(v)) /\ UNCHANGED sceneVars
    \/ (\E v \in SampleRates : edit_sample_rate(v)) /\ UNCHANGED sceneVars

\* passes of Render Selected Controls over local and referenced objects, the
\* two render fields edited in between
SpecRender == InitScene /\ [][NextRender]_vars

\* Apply Color starts from a panel built from a document that gives the
\* first block any saved entry and leaves the second at its default
InitColor ==
    /\ InitPanel
    /\ file.kind = "json" /\ file.doc.rig = {}
    /\ DOMAIN file.doc.blocks = {TitleSeq[1]}
    /\ scene = EmptyScene
    /\ lastOp = NoOp

NextColor ==
    \E t \in Titles, sel \in Selections : apply_color_button(t, sel)

\* Apply Color
SpecColor == InitColor /\ [][NextColor]_vars


----------------------------------------------------------------------------
(* Claims about the panel, checked under Spec *)

\* the saved render settings as has_unsaved_changes reads them: 0.0 and 1
\* stand in for values the document does not hold
ClaimSavedRig(doc) ==
    IF doc.rig = {}
    THEN [curveWidth |-> CompareDefaultCurveWidth, sampleRate |-> DefaultSampleRate]
    ELSE CHOOSE r \in doc.rig : TRUE

\* the five conditions of C1 on the document a load returns
ClaimChanged(doc) ==
    \/ doc = EmptyDoc
    \/ ClaimSavedRig(doc).curveWidth # curve_width
    \/ ClaimSavedRig(doc).sampleRate # sample_rate
    \/ \E t \in Titles : t \notin DOMAIN doc.blocks
    \/ \E t \in Titles \cap DOMAIN doc.blocks :
          \/ doc.blocks[t].index # blocks[t].slider
          \/ blocks[t].slider = CustomIndex /\ blocks[t].rgb # doc.blocks[t].rgb

\* C1: has_unsaved_changes is true exactly when the persisted document is
\* empty or missing, a saved render setting differs from its field, a
\* current title is absent from the document, a block's index differs from
\* the saved index, or a block at index -1 has an rgb other than the saved one.
C1_UnsavedIffMismatch ==
    Unsaved <=> ClaimChanged(IF file.kind = "json" THEN file.doc ELSE EmptyDoc)

\* C1 witness: Close went through without a prompt on a document that holds
\* both titles, one of them at the custom index
C1_Witness ==
    /\ ~panelOpen /\ message = "none" /\ ~Unsaved
    /\ \E t \in Titles : blocks[t].slider = CustomIndex /\ blocks[t].rgb # NoRgb

\* C2: with the config file empty, missing or unparsable, has_unsaved_changes
\* is true whatever the blocks and the render fields hold.
C2_EmptyDocumentIsChanged ==
    (file.kind \in {"missing", "corrupt"} \/ file.doc = EmptyDoc) => Unsaved

\* C2 witness: Close prompted over an unparsable file although the widgets
\* are as build_ui left them
C2_Witness ==
    /\ file.kind = "corrupt" /\ message = "confirm_no"
    /\ blocks = BuiltBlocks(EmptyDoc)

\* C3 (as stated): every block has its rgb set exactly when its slider is at -1.
C3_RgbIffCustomIndex ==
    \A t \in Titles : (blocks[t].rgb # NoRgb) <=> (blocks[t].slider = CustomIndex)

\* C4 (as stated): a save that reports a failure leaves the file as it was.
C4_FailedSaveKeepsFile ==
    [][message' = "save_error" => file' = file]_vars

\* C5: Close shows the confirmation exactly when has_unsaved_changes is true,
\* deletes the panel only without unsaved changes or after "Yes", and on
\* "No" leaves the panel, the blocks, the fields and the file as they were.
\* (Close changes nothing has_unsaved_changes reads, and every other handler
\* replaces the message, so a state that shows a confirmation, or a deleted
\* panel, is the state a Close step left.)
C5_ClosePromptsIffUnsaved ==
    /\ [](/\ message \in {"confirm_yes", "confirm_no"} => Unsaved
          /\ ~panelOpen => (message = "confirm_yes" <=> Unsaved)
          /\ message = "confirm_no" => panelOpen)
    /\ [][message' = "confirm_no" =>
             UNCHANGED <<file, blocks, curve_width, sample_rate, panelOpen>>]_vars

\* C5 witness: the panel was deleted after the user answered "Yes"
C5_Witness == ~panelOpen /\ message = "confirm_yes"

\* C6 (as stated): lastIndex is a palette index 0..31, the one the slider is
\* on when it is not at -1, and no block rests at -1 without a custom rgb
\* (the drag handler has put the slider back on lastIndex).
C6_LastIndexIsPaletteIndex ==
    \A t \in Titles :
        /\ blocks[t].lastIndex \in PaletteIndices
        /\ blocks[t].slider \in PaletteIndices => blocks[t].lastIndex = blocks[t].slider
        /\ ~(blocks[t].slider = CustomIndex /\ blocks[t].rgb = NoRgb)

\* C9: read_json_config raises for no file state, and returns the empty
\* document for a file that is absent or cannot be parsed.
C9_LoadNeverRaises ==
    LET r == read_json_config(file)
    IN  /\ ~r.raised
        /\ file.kind \in {"missing", "corrupt"} => r.doc = EmptyDoc

\* C9 witness: the panel stands built from a file that cannot be parsed
C9_Witness ==
    /\ file.kind = "corrupt" /\ panelOpen /\ message = "none"
    /\ blocks = BuiltBlocks(EmptyDoc)
    /\ curve_width = BuildDefaultCurveWidth /\ sample_rate = DefaultSampleRate

\* C11: right after a Save Config that went through, with no slider, custom
\* colour or render field touched since, has_unsaved_changes is false, and a
\* Close pressed in that state shows no confirmation; blocks at -1 included.
C11_SavedThenUnchanged ==
    /\ [](message = "saved" => ~Unsaved)
    /\ [][message = "saved" => message' \notin {"confirm_yes", "confirm_no"}]_vars

\* C11 witness: Save Config went through with one block at -1 holding a
\* custom colour and the other at a palette index
C11_Witness ==
    /\ message = "saved" /\ panelOpen
    /\ \E t \in Titles : blocks[t].slider = CustomIndex /\ blocks[t].rgb # NoRgb
    /\ \E t \in Titles : blocks[t].slider \in PaletteIndices

\* a document with an entry of the documented shape for every title: a
\* palette index without rgb, or -1 with an rgb triple
DocumentedDoc(doc) ==
    /\ DOMAIN doc.blocks = Titles
    /\ \A t \in Titles :
          \/ doc.blocks[t].index \in PaletteIndices /\ doc.blocks[t].rgb = NoRgb
          \/ doc.blocks[t].index = CustomIndex /\ doc.blocks[t].rgb # NoRgb

\* C12 (as stated): the panel as build_ui leaves it for a document that holds
\* a documented entry for every title, with or without RenderRigControls,
\* has no unsaved changes.
C12_BuiltFromDocumentIsClean ==
    (panelOpen /\ file.kind = "json" /\ DocumentedDoc(file.doc) /\ Built(file)) => ~Unsaved

----------------------------------------------------------------------------
(* Claims about the scene helpers, checked under SpecScene *)

\* an object none of whose shapes is referenced
IsLocal(obj) ==
    LET rel == listRelatives(obj)
    IN  ~rel.raised /\ \A i \in 1..Len(rel.shapes) : ~referenceQuery(rel.shapes[i])

NodesOf(sc, type, obj) == {n \in sc.nodes : n.type = type /\ n.base = safe_name(obj)}

\* C7: the shading-pair setup run twice in succession for the same local
\* object: the second run creates no node and adds (or removes) no
\* connection, and the object has exactly one ramp and one place2dTexture.
C7_SecondSetupChangesNothing ==
    [][(lastOp.op = "ensure" /\ lastOp'.op = "ensure" /\ lastOp'.obj = lastOp.obj
        /\ IsLocal(lastOp.obj)) =>
          /\ scene'.nodes = scene.nodes
          /\ scene'.conns = scene.conns
          /\ Cardinality(NodesOf(scene', "ramp", lastOp.obj)) = 1
          /\ Cardinality(NodesOf(scene', "place2dTexture", lastOp.obj)) = 1]_vars

\* C7 witness: the setup has run twice in a row for the local control, whose
\* ramp feeds its curve shader
C7_Witness ==
    /\ lastOp.op = "ensure" /\ lastOp.obj = "ctl" /\ lastOp.runs = 2
    /\ Conn(Node("ramp", "ctl", 0), "outColor", CtlShape, "aiCurveShader") \in scene.conns

\* the connections that leave a pair: from its ramp or its texture to a
\* node outside the pair
PairOutgoing(sc, ramp, texture) ==
    {c \in sc.conns : c.src \in {ramp, texture} /\ c.dst \notin {ramp, texture}}

\* C8: cleanup_unused_ramps_and_textures deletes the ramp and the texture of
\* every listed pair that ends the batch with no outgoing connection (and
\* every listed node that has no outgoing connection at all), and keeps both
\* nodes of a listed pair that has an outgoing connection.
C8_CleanupDeletesExactlyUnconnected ==
    [][lastOp'.op = "cleanup" =>
          \A pair \in lastOp'.pairs :
              LET ramp    == pair.ramp
                  texture == pair.texture
              IN  /\ PairOutgoing(scene, ramp, texture) = {} =>
                         (ramp \notin scene'.nodes /\ texture \notin scene'.nodes)
                  /\ \A n \in {ramp, texture} :
                         Outgoing(scene, n) = {} => n \notin scene'.nodes
                  /\ PairOutgoing(scene, ramp, texture) # {} =>
                         ({ramp, texture} \cap scene.nodes) \subseteq scene'.nodes]_vars

\* C8 witness: a cleanup of two pairs deleted the two nodes of one and kept
\* the two nodes of the other
C8_Witness ==
    /\ lastOp.op = "cleanup" /\ Cardinality(lastOp.pairs) = 2 /\ lastOp.deleted = 2
    /\ \E pair \in lastOp.pairs : pair.ramp \in scene.nodes /\ pair.texture \in scene.nodes

----------------------------------------------------------------------------
(* Claims about Apply Color, checked under SpecColor *)

\* an object whose shapes can be listed and none of whose override
\* attributes is locked
Healthy(obj) ==
    LET rel == listRelatives(obj)
    IN  ~rel.raised /\ \A i \in 1..Len(rel.shapes) : LockedAttr(rel.shapes[i]) = "none"

\* the shape carries the override Apply Color was asked for
HasOverride(o, idx, rgb) ==
    /\ o.overrideEnabled = 1
    /\ IF idx >= 0
       THEN o.overrideRGBColors = 0 /\ o.overrideColor = idx
       ELSE o.overrideRGBColors = 1 /\ o.overrideColorRGB = rgb

\* C10 (as stated): after Apply Color no failure has surfaced, and every
\* selected object that has no failure of its own carries the override,
\* whatever failed on the other selected objects.
C10_ApplyIsBestEffort ==
    lastOp.op = "apply" =>
        /\ ~lastOp.raised
        /\ \A i \in 1..Len(lastOp.sel) :
               Healthy(lastOp.sel[i]) =>
                   \A j \in 1..Len(listRelatives(lastOp.sel[i]).shapes) :
                       HasOverride(OverrideOf(scene, listRelatives(lastOp.sel[i]).shapes[j]),
                                   lastOp.idx, lastOp.rgb)

----------------------------------------------------------------------------
(* Claims about passes of Render Selected Controls, checked under SpecRender *)

\* C13 (as stated): after a pass of Render Selected Controls, whatever passes
\* went before, every ramp and place2dTexture the tool created and the scene
\* still holds has an outgoing connection.
C13_NoUnconnectedNodeLeft ==
    (lastOp.op = "render" /\ message = "render_applied") =>
        \A n \in scene.nodes : Outgoing(scene, n) # {}

====
